---- MODULE Spec2Model ----
(***************************************************************************)
(* Model of the deploy-contract route (src/src/app/api/deploy-contract/    *)
(* route.ts).  The file holds two definitions of the POST handler: the     *)
(* first (lines 32-172) publishes the source text directly and keeps a     *)
(* scratch file under /tmp; the second (lines 185-396) builds the package  *)
(* in the directory temp-contract with the Move compiler and publishes the *)
(* compiled modules.  Both are modelled; postDef says which one serves.    *)
(*                                                                         *)
(* A request is a sequence of synchronous sections separated by awaits.    *)
(* One action is one synchronous section: it starts when the awaited call  *)
(* resolves or throws and runs to the next await or to the return.         *)
(***************************************************************************)
EXTENDS Integers, Sequences, FiniteSets, TLC

\* ------------------------------------------------------------------ bounds
NumReqs == 2
MaxClock == 1
MaxEntries == 2
\* runs of the lifecycle effect of WebContainerPreview
MaxEffects == 3
\* deployments the Home page asks for
MaxDeploys == 1
\* the requests served in the specification with fairness
NumLiveReqs == 1

Reqs == 1..NumReqs

\* ------------------------------------------------------------- vocabulary
None == "none"            \* JavaScript undefined
Null == "null"            \* JavaScript null
Absent == "absent"        \* a property the parsed body does not have

\* Source texts a caller can send: the empty string and three shapes of text.
SrcQualified == "module temp_contract::contract { }"
SrcBraced    == "module contract { }"
SrcNoDecl    == "fun f() { }"
MoveCodes == {"", SrcQualified, SrcBraced, SrcNoDecl}

\* What request.json() gives: it throws, or yields JSON null, or an object.
Bodies == {[json |-> "invalid", moveCode |-> Absent],
           [json |-> "null", moveCode |-> Absent]}
          \cup {[json |-> "object", moveCode |-> m] : m \in MoveCodes \cup {Absent}}

\* SUI_NETWORK: the first definition fixes it (line 13), the second reads it
\* from the environment (line 183).
Networks == {"testnet", "devnet", "mainnet"}

VARIABLES
  postDef,     \* which definition of POST serves the route: 1 or 2
  mnemonic,    \* MASTER_WALLET_MNEMONIC is set
  network,     \* SUI_NETWORK
  pc,          \* per request: the await it is suspended at, or idle / done
  body,        \* per request: what request.json() gives
  keypair,     \* per request: the key of the deployment identity
  modules,     \* per request: compiled modules handed to publish
  packageId,   \* per request
  objectId,    \* per request
  moduleName,  \* per request: module named in the init call's target
  wsPath,      \* per request: the workspace path it wrote to
  publishTxn,  \* per request: the reply to the publish transaction
  initResult,  \* per request: the reply to the init transaction
  log,         \* per request: the external operations performed, in order
  resp,        \* per request: the Response returned
  fsys,        \* the file system: path -> content, for the paths that exist
  now,         \* the last value Date.now() gave
  \* the Home page (src/unnamed/part_002)
  page,        \* generatedCode.moveCode, isDeploying, deployment, the fetch awaited
  \* the WebContainerPreview component (src/src/components/WebContainerPreview.tsx)
  compMounted, \* the component is mounted
  terminal,    \* the terminal state is set
  wcState,     \* the webContainer state: 0 for null, or a container
  isLoading,   \* the isLoading state
  previewError,\* the error state
  iframeSrc,   \* iframeRef.current.src
  effect,      \* the number of the latest run of the lifecycle effect, 0 before any
  mounted,     \* per run of the effect: the `mounted` flag of its closure
  captured,    \* per run: the value of the webContainer state its closure sees
  stage,       \* per run: the await setupWebContainer is suspended at
  procs,       \* per run: which of installProcess and devProcess are set
  running      \* the containers booted and not torn down

config == <<postDef, mnemonic, network>>
locals == <<keypair, modules, packageId, objectId, moduleName, wsPath, publishTxn, initResult>>
preview == <<compMounted, terminal, wcState, isLoading, previewError, iframeSrc, effect,
             mounted, captured, stage, procs, running>>
ui == <<page, preview>>
vars == <<config, pc, body, locals, log, resp, fsys, now, ui>>

\* ---------------------------------------------------------------- values
\* JavaScript truthiness of the values the handlers test with "!" or "if".
Truthy(v) == v \notin {Absent, None, Null, ""}

\* The key pair derived from the configured mnemonic is key 0.  A generated
\* key pair comes from the random source, which never repeats: the key
\* generated while serving request r is key r.
MasterKey == 0
Generate(r) == r
\* keypair.getPublicKey().toSuiAddress()
ToSuiAddress(k) == "0xaddr" \o ToString(k)
\* Buffer.from(<secret key>).toString('hex')
ToHex(k) == "hex" \o ToString(k)
\* The ledger derives the ids of the objects a transaction creates from the
\* transaction's digest, which no other transaction has: the i-th object
\* created by the transaction `tx` of request r.
ObjectIdOf(r, tx, i) == "0x" \o ToString(r) \o tx \o ToString(i)

\* The Response not yet returned, and the three shapes the handlers return.
\* A field holding None is left out of the body by JSON.stringify.
NoResponse ==
  [status |-> 0, error |-> None, details |-> None, packageId |-> None,
   objectId |-> None, privateKeyHex |-> None, address |-> None,
   isUsingMasterWallet |-> None]

RequiredResponse ==
  [NoResponse EXCEPT !.status = 400, !.error = "Move code is required"]

\* ErrorResponse without the details field.
ErrorResponse_NoDetails(message) ==
  [NoResponse EXCEPT !.status = 500, !.error = "Failed to deploy contract"]

ErrorResponse(message) ==
  [NoResponse EXCEPT !.status = 500, !.error = "Failed to deploy contract",
                     !.details = message]

\* ----------------------------------------------------------- file system
TempDir == "temp-contract"
SourcesDir == "temp-contract/sources"
MoveTomlPath == "temp-contract/Move.toml"
MoveFilePath == "temp-contract/sources/contract.move"
\* tempDir and everything fs.rmSync(tempDir, {recursive}) removes with it
TempTree == {TempDir, SourcesDir, MoveTomlPath, MoveFilePath}

\* The scratch file of the first definition: /tmp/counter_<Date.now()>.move
ScratchFile(t) == "/tmp/counter_" \o ToString(t) \o ".move"

Paths == TempTree \cup {ScratchFile(t) : t \in 0..MaxClock}

\* f with path p holding content c
WriteFileSync(f, p, c) == [q \in DOMAIN f \cup {p} |-> IF q = p THEN c ELSE f[q]]

\* fs.mkdirSync(tempDir) and fs.mkdirSync(sourcesDir), when tempDir is not there
MkdirSync(f) ==
  IF TempDir \in DOMAIN f THEN f
  ELSE WriteFileSync(WriteFileSync(f, TempDir, "dir"), SourcesDir, "dir")

\* fs.rmSync(tempDir, { recursive: true, force: true }) when it does not throw
RmSync(f) == [q \in DOMAIN f \ TempTree |-> f[q]]

\* -------------------------------------------------------- compiler output
\* An entry of the bracketed list is a sequence of characters.
EntrySet == { <<>>, <<" ">>, <<"\"", "\"">>, <<"\"", "A", "\"">> }

RECURSIVE SeqsUpTo(_, _)
SeqsUpTo(S, n) ==
  IF n = 0 THEN { <<>> }
  ELSE LET shorter == SeqsUpTo(S, n - 1)
       IN shorter \cup {Append(q, e) : q \in {x \in shorter : Len(x) = n - 1}, e \in S}

\* What execSync gives: it throws (non-zero exit), or returns the output text,
\* which has the "Compiled Modules: [" ... "]" marker or not.
BuildOutputs ==
  {[exit |-> 1, marker |-> FALSE, entries |-> <<>>],
   [exit |-> 0, marker |-> FALSE, entries |-> <<>>]}
  \cup {[exit |-> 0, marker |-> TRUE, entries |-> es] : es \in SeqsUpTo(EntrySet, MaxEntries)}

RECURSIVE ContentLen(_)
\* the length of the text between the brackets: the entries joined by commas
ContentLen(es) ==
  IF es = <<>> THEN 0
  ELSE Len(Head(es)) + (IF Len(es) > 1 THEN 1 + ContentLen(Tail(es)) ELSE 0)

\* buildOutput.match(/Compiled Modules: \[([^\]]+)\]/) is not null
ModulesMatch(out) == out.marker /\ ContentLen(out.entries) > 0

RECURSIVE TrimStart(_)
TrimStart(e) == IF e # <<>> /\ Head(e) = " " THEN TrimStart(Tail(e)) ELSE e

RECURSIVE TrimEnd(_)
TrimEnd(e) ==
  IF e # <<>> /\ e[Len(e)] = " " THEN TrimEnd(SubSeq(e, 1, Len(e) - 1)) ELSE e

IsNotQuote(c) == c # "\""
\* m.trim().replace(/"/g, '')
CleanEntry(e) == SelectSeq(TrimEnd(TrimStart(e)), IsNotQuote)

IsNonEmpty(e) == e # <<>>
\* modulesMatch[1].split(',').map(...).filter(Boolean)
ParseModules(es) == SelectSeq([i \in 1..Len(es) |-> CleanEntry(es[i])], IsNonEmpty)

\* ------------------------------------------------------------ source text
\* moveCode.match(/module\s+(\w+)\s*::\s*(\w+)/) || moveCode.match(/module\s+(\w+)\s*\{/)
\* and the last group of the match: None when neither pattern matches.
\* The source texts as their words and punctuation marks, in order.
Tokens(code) ==
  CASE code = SrcQualified -> <<"module", "temp_contract", "::", "contract", "{", "}">>
    [] code = SrcBraced -> <<"module", "contract", "{", "}">>
    [] code = SrcNoDecl -> <<"fun", "f", "(", ")", "{", "}">>
    [] OTHER -> <<>>

\* \w+
IsWord(t) == t \notin {"::", "{", "}", "(", ")"}

\* The groups of the leftmost match of /module\s+(\w+)\s*::\s*(\w+)/, or <<>>
QualifiedMatch(ts) ==
  LET hits == {i \in 1..(Len(ts) - 3) :
                 /\ ts[i] = "module" /\ IsWord(ts[i + 1])
                 /\ ts[i + 2] = "::" /\ IsWord(ts[i + 3])}
  IN IF hits = {} THEN <<>>
     ELSE LET i == CHOOSE h \in hits : \A j \in hits : h <= j
          IN <<ts[i + 1], ts[i + 3]>>

\* The groups of the leftmost match of /module\s+(\w+)\s*\{/, or <<>>
BracedMatch(ts) ==
  LET hits == {i \in 1..(Len(ts) - 2) :
                 ts[i] = "module" /\ IsWord(ts[i + 1]) /\ ts[i + 2] = "{"}
  IN IF hits = {} THEN <<>>
     ELSE LET i == CHOOSE h \in hits : \A j \in hits : h <= j
          IN <<ts[i + 1]>>

\* ModuleNameMatch taking the first group of the match: the package's name.
ModuleNameMatch_FirstGroup(code) ==
  LET groups == IF QualifiedMatch(Tokens(code)) # <<>> THEN QualifiedMatch(Tokens(code))
                ELSE BracedMatch(Tokens(code))
  IN IF groups = <<>> THEN None ELSE groups[1]

ModuleNameMatch(code) ==
  LET groups == IF QualifiedMatch(Tokens(code)) # <<>> THEN QualifiedMatch(Tokens(code))
                ELSE BracedMatch(Tokens(code))
  IN IF groups = <<>> THEN None ELSE groups[Len(groups)]

\* --------------------------------------------------------- ledger replies
\* What awaiting a transaction gives: it throws (the node rejects it, the
\* network fails), or a reply with the execution status and, when the node
\* reports them, the object changes: `changes` is what the transaction
\* changed and `reported` whether the reply says so (the handler can read
\* the changes of a reply only when reported).  A transaction whose execution failed
\* changes nothing but the gas coin; a publish that succeeded reports the
\* published package and its UpgradeCap; an init call that succeeded reports
\* the objects it created, if any.
Throws == [threw |-> TRUE, status |-> "failure", reported |-> FALSE, changes |-> <<>>]

Reply(status, reported, changes) ==
  [threw |-> FALSE, status |-> status, reported |-> reported, changes |-> changes]

\* No reply yet
NoReply == [threw |-> FALSE, status |-> "none", reported |-> FALSE, changes |-> <<>>]

GasMutated == [type |-> "mutated", id |-> "0xgas"]

PublishReplies(r) ==
  { Throws,
    Reply("failure", TRUE, <<GasMutated>>),
    Reply("success", FALSE, <<>>),
    Reply("success", TRUE, <<GasMutated,
                             [type |-> "published", id |-> ObjectIdOf(r, "p", 1)],
                             [type |-> "created", id |-> ObjectIdOf(r, "p", 2)]>>),
    \* a reply the handler has no ground to trust: two packages in one publish
    Reply("success", TRUE, <<GasMutated,
                             [type |-> "published", id |-> ObjectIdOf(r, "p", 1)],
                             [type |-> "published", id |-> ObjectIdOf(r, "p", 3)],
                             [type |-> "created", id |-> ObjectIdOf(r, "p", 2)]>>) }

InitReplies(r) ==
  { Throws,
    Reply("failure", TRUE, <<GasMutated>>),
    Reply("success", FALSE, <<>>),
    Reply("success", TRUE, <<GasMutated>>),
    Reply("success", TRUE, <<GasMutated, [type |-> "created", id |-> ObjectIdOf(r, "i", 1)]>>),
    \* the call of lines 334-337 asks for no objectChanges: the transaction
    \* created an object and the reply does not say so
    Reply("success", FALSE, <<GasMutated, [type |-> "created", id |-> ObjectIdOf(r, "i", 1)]>>) }

\* objectChanges?.find(change => change.type === type), as the id of the change
\* found, or None
FindChange(reply, type) ==
  LET hits == {i \in 1..Len(reply.changes) : reply.changes[i].type = type}
  IN IF ~reply.reported \/ hits = {} THEN None
     ELSE reply.changes[CHOOSE i \in hits : \A j \in hits : i <= j].id

\* PackageIdOf taking the first reported change, whatever its type.
PackageIdOf_FirstChange(reply) ==
  IF reply.reported /\ reply.changes # <<>> THEN reply.changes[1].id ELSE None

\* PackageIdOf answering with a package id kept from an earlier publish.
PackageIdOf_Cached(reply) ==
  IF FindChange(reply, "published") = None THEN None ELSE "0xcached"

\* Lines 311-318: the package id taken from the publish reply
PackageIdOf(reply) == FindChange(reply, "published")

\* Lines 339-347: the object id taken from the init reply
CreatedIdOf(reply) ==
  LET found == FindChange(reply, "created")
  IN IF found = None THEN Null ELSE found

\* ------------------------------------------------------------------ state
Mnemonics == {"", "valid words", "not a mnemonic"}

\* The Home page before anything was generated or deployed (part_002, lines
\* 31-43); `awaiting` is the request handleDeploy awaits the answer to, 0 when
\* it awaits none, and `last` the last one it got an answer to.
NoDeployment == [packageId |-> "", objectId |-> "", burnerPrivateKey |-> ""]

PageInit ==
  page = [moveCode |-> "", isDeploying |-> FALSE, deployment |-> NoDeployment,
          awaiting |-> 0, last |-> 0]

Effects == 1..MaxEffects

\* WebContainerPreview before it is mounted (lines 136-141 for the states).
PreviewInit ==
  /\ compMounted = FALSE
  /\ terminal = FALSE
  /\ wcState = 0
  /\ isLoading = TRUE
  /\ previewError = Null
  /\ iframeSrc = None
  /\ effect = 0
  /\ mounted = [e \in Effects |-> FALSE]
  /\ captured = [e \in Effects |-> 0]
  /\ stage = [e \in Effects |-> "none"]
  /\ procs = [e \in Effects |-> {}]
  /\ running = {}

Init ==
  /\ PageInit
  /\ PreviewInit
  /\ postDef \in {1, 2}
  /\ mnemonic \in Mnemonics
  /\ network \in IF postDef = 1 THEN {"testnet"} ELSE Networks
  /\ pc = [r \in Reqs |-> "idle"]
  /\ body = [r \in Reqs |-> [json |-> "invalid", moveCode |-> Absent]]
  /\ keypair = [r \in Reqs |-> -1]
  /\ modules = [r \in Reqs |-> <<>>]
  /\ packageId = [r \in Reqs |-> None]
  /\ objectId = [r \in Reqs |-> None]
  /\ moduleName = [r \in Reqs |-> None]
  /\ wsPath = [r \in Reqs |-> None]
  /\ publishTxn = [r \in Reqs |-> NoReply]
  /\ initResult = [r \in Reqs |-> NoReply]
  /\ log = [r \in Reqs |-> <<>>]
  /\ resp = [r \in Reqs |-> NoResponse]
  /\ fsys = [q \in {} |-> "dir"]
  /\ now = 0

\* Return with request.json() outside the try: its error leaves the handler.
Return_JsonErrorEscapes(r, response) ==
  IF response.details = "Unexpected token"
  THEN resp' = resp /\ pc' = [pc EXCEPT ![r] = "threw"] /\ UNCHANGED ui
  ELSE resp' = [resp EXCEPT ![r] = response] /\ pc' = [pc EXCEPT ![r] = "done"]
       /\ UNCHANGED ui

\* The handler returns `response`.  A step of a handler changes nothing of the
\* page or of the preview, which run in the browser.
Return(r, response) ==
  /\ resp' = [resp EXCEPT ![r] = response]
  /\ pc' = [pc EXCEPT ![r] = "done"]
  /\ UNCHANGED ui

\* The handler suspends at the await `at`.
Await(r, at) ==
  /\ pc' = [pc EXCEPT ![r] = at]
  /\ resp' = resp
  /\ UNCHANGED ui

\* A request arrives: the handler starts and awaits request.json().
Receive(r) ==
  /\ pc[r] = "idle"
  /\ \E b \in Bodies : body' = [body EXCEPT ![r] = b]
  /\ pc' = [pc EXCEPT ![r] = "json"]
  /\ UNCHANGED <<config, locals, log, resp, fsys, now, ui>>

\* IsMissing testing only for a missing property: an empty text passes.
IsMissing_OnlyUndefined(code) == code = Absent

\* if (!moveCode), lines 36 and 189
IsMissing(code) == ~Truthy(code)

\* ======================= the second definition of POST (lines 185-396) ====

\* CleanupOnError removing nothing.
CleanupOnError_Skipped(f, rmThrows) == f

\* Lines 375-381: tempDir is removed if it exists; a failure is swallowed.
CleanupOnError(f, rmThrows) ==
  IF TempDir \in DOMAIN f /\ ~rmThrows THEN RmSync(f) ELSE f

\* Lines 355-359: tempDir is removed; a failure is swallowed.
CleanupOnSuccess(f, rmThrows) ==
  IF rmThrows THEN f ELSE RmSync(f)

RmEvent(rmThrows) == IF rmThrows THEN "rm threw" ELSE "rm"

\* Rethrown handing on the error of the cleanup when the cleanup threw.
Rethrown_CleanupError(message, cleanupThrew) ==
  IF cleanupThrew THEN "EPERM: rm" ELSE message

\* Line 383, throw error: the error caught at line 373 is thrown again, whether
\* or not the cleanup of lines 375-381 threw.
Rethrown(message, cleanupThrew) == message

\* The catch of the inner try (373-384) cleans up and rethrows; the catch of the
\* outer try (386-395) answers 500 with the message of the error.  f is the
\* file system and lg the request's log when the error is thrown.
Catch2(r, f, lg, message, rmThrows) ==
  /\ fsys' = CleanupOnError(f, rmThrows)
  /\ log' = [log EXCEPT ![r] =
               IF TempDir \in DOMAIN f THEN Append(lg, RmEvent(rmThrows)) ELSE lg]
  /\ Return(r, ErrorResponse(Rethrown(message, rmThrows /\ TempDir \in DOMAIN f)))

\* Lines 296-309: the publish transaction is built and submitted.
SubmitPublish2(r, lg) ==
  /\ log' = [log EXCEPT ![r] = Append(lg, "publish")]
  /\ Await(r, "publish")

\* Lines 354-371: tempDir is removed and the result returned.
Finish2(r, lg, pid, oid, rmThrows) ==
  /\ fsys' = CleanupOnSuccess(fsys, rmThrows)
  /\ log' = [log EXCEPT ![r] = Append(lg, RmEvent(rmThrows))]
  /\ Return(r, [NoResponse EXCEPT !.status = 200,
                                  !.packageId = pid,
                                  !.objectId = oid,
                                  !.privateKeyHex = ToHex(keypair[r]),
                                  !.address = ToSuiAddress(keypair[r]),
                                  !.isUsingMasterWallet =
                                    IF keypair[r] = MasterKey THEN "true" ELSE "false"])

\* What the file-system calls of lines 204-224 do: all succeed, mkdirSync
\* throws, or writeFileSync throws.
IoOutcomes == {"ok", "mkdir throws", "write throws"}

\* Lines 196-224: the directory, Move.toml and contract.move.
WriteWorkspace(f, code) ==
  WriteFileSync(WriteFileSync(MkdirSync(f), MoveTomlPath, "Move.toml"), MoveFilePath, code)

\* Lines 246-257: the key pair of the deployment.
ChooseKeypair2(r) == IF Truthy(mnemonic) THEN MasterKey ELSE Generate(r)

\* NeedsFaucet2 without the test of isUsingMasterWallet.
NeedsFaucet2_AlsoMaster(k) == network \in {"testnet", "devnet"}

\* Line 263: whether the wallet is funded from the faucet.
NeedsFaucet2(k) == k # MasterKey /\ network \in {"testnet", "devnet"}

\* MissingPackageId with the test left out.
MissingPackageId_Unchecked(pid) == FALSE

\* Line 316: if (!packageId)
MissingPackageId(pid) == ~Truthy(pid)

\* Lines 187-270: request.json() has resolved or thrown; validation, workspace,
\* build, parse and key pair, up to the first await that follows.
P2_Validate(r) ==
  /\ postDef = 2
  /\ pc[r] = "json"
  /\ UNCHANGED <<config, body, packageId, objectId, moduleName, publishTxn, initResult, now>>
  /\ IF body[r].json # "object"
     THEN \* request.json() throws, or destructuring null throws: outer catch
          /\ Return(r, ErrorResponse("Unexpected token"))
          /\ UNCHANGED <<keypair, modules, wsPath, log, fsys>>
     ELSE IF IsMissing(body[r].moveCode)
     THEN /\ Return(r, RequiredResponse)
          /\ UNCHANGED <<keypair, modules, wsPath, log, fsys>>
     ELSE \E io \in IoOutcomes, out \in BuildOutputs, rmThrows \in BOOLEAN :
       LET code == body[r].moveCode
           made == MkdirSync(fsys)
           written == WriteWorkspace(fsys, code)
           mods == ParseModules(out.entries)
           k == ChooseKeypair2(r)
       IN
       /\ wsPath' = [wsPath EXCEPT ![r] = TempDir]
       /\ IF io = "mkdir throws" /\ TempDir \notin DOMAIN fsys
          THEN /\ Catch2(r, fsys, <<>>, "EACCES: mkdir", rmThrows)
               /\ UNCHANGED <<keypair, modules>>
          ELSE IF io = "write throws"
          THEN /\ Catch2(r, made, <<"mkdir">>, "ENOSPC: write", rmThrows)
               /\ UNCHANGED <<keypair, modules>>
          ELSE IF out.exit # 0
          THEN /\ Catch2(r, written, <<"mkdir", "build", "build failed">>,
                         "Command failed: sui move build", rmThrows)
               /\ UNCHANGED <<keypair, modules>>
          ELSE IF ~ModulesMatch(out)
          THEN /\ Catch2(r, written, <<"mkdir", "build", "parse failed">>,
                         "Failed to extract compiled modules from build output", rmThrows)
               /\ UNCHANGED <<keypair, modules>>
          ELSE IF mnemonic = "not a mnemonic"
          THEN \* Ed25519Keypair.deriveKeypair throws
               /\ Catch2(r, written, <<"mkdir", "build">>, "Invalid mnemonic", rmThrows)
               /\ modules' = [modules EXCEPT ![r] = mods]
               /\ UNCHANGED keypair
          ELSE /\ fsys' = written
               /\ modules' = [modules EXCEPT ![r] = mods]
               /\ keypair' = [keypair EXCEPT ![r] = k]
               /\ IF NeedsFaucet2(k)
                  THEN /\ log' = [log EXCEPT ![r] = <<"mkdir", "build", "keygen", "faucet">>]
                       /\ Await(r, "faucet")
                  ELSE SubmitPublish2(r, <<"mkdir", "build", "keygen">>)

\* FaucetThrew2 without the catch: the error of the faucet request reaches the
\* catch of the inner try.
FaucetThrew2_Uncaught(r, rmThrows) ==
  Catch2(r, fsys, Append(log[r], "faucet threw"), "fetch failed", rmThrows)

\* Lines 274-293: the catch of the faucet request, which sends the transfer
\* from the master wallet when a mnemonic is set and else goes on to publish.
FaucetThrew2(r, rmThrows) ==
  IF Truthy(mnemonic)
  THEN /\ log' = [log EXCEPT ![r] = Append(Append(@, "faucet threw"), "transfer")]
       /\ Await(r, "transfer")
       /\ fsys' = fsys
  ELSE /\ SubmitPublish2(r, Append(log[r], "faucet threw"))
       /\ fsys' = fsys

\* FaucetResolved2 going on to publish without the delay.
FaucetResolved2_NoDelay(r) ==
  /\ SubmitPublish2(r, log[r])
  /\ fsys' = fsys

\* Lines 266-273: fetch resolved, whatever the HTTP status of the answer (it is
\* not read); the handler waits three seconds.
FaucetResolved2(r) ==
  /\ log' = [log EXCEPT ![r] = Append(@, "delay")]
  /\ Await(r, "delay")
  /\ fsys' = fsys

\* Lines 264-275: the faucet request has resolved or thrown.
P2_FaucetReturns(r) ==
  /\ postDef = 2
  /\ pc[r] = "faucet"
  /\ UNCHANGED <<config, body, locals, now>>
  /\ \E threw \in BOOLEAN, rmThrows \in BOOLEAN :
       IF threw
       THEN FaucetThrew2(r, rmThrows)
       ELSE FaucetResolved2(r)

\* Lines 273 and 291: the three seconds have passed.
P2_DelayElapsed(r) ==
  /\ postDef = 2
  /\ pc[r] = "delay"
  /\ SubmitPublish2(r, log[r])
  /\ UNCHANGED <<config, body, locals, fsys, now>>

\* Lines 302-352: the publish transaction has resolved or thrown.
P2_PublishReturns(r) ==
  /\ postDef = 2
  /\ pc[r] = "publish"
  /\ UNCHANGED <<config, body, keypair, modules, wsPath, initResult, now>>
  /\ \E reply \in PublishReplies(r), rmThrows \in BOOLEAN :
       LET pid == PackageIdOf(reply)
           name == ModuleNameMatch(body[r].moveCode)
       IN
       /\ publishTxn' = [publishTxn EXCEPT ![r] = reply]
       /\ IF reply.threw
          THEN /\ Catch2(r, fsys, log[r], "Transaction rejected", rmThrows)
               /\ UNCHANGED <<packageId, objectId, moduleName>>
          ELSE IF MissingPackageId(pid)
          THEN /\ Catch2(r, fsys, log[r], "Failed to extract package ID from transaction",
                         rmThrows)
               /\ UNCHANGED <<packageId, objectId, moduleName>>
          ELSE /\ packageId' = [packageId EXCEPT ![r] = pid]
               /\ objectId' = [objectId EXCEPT ![r] = Null]
               /\ IF name # None
                  THEN /\ moduleName' = [moduleName EXCEPT ![r] = name]
                       /\ log' = [log EXCEPT ![r] = Append(@, "init")]
                       /\ Await(r, "init")
                       /\ fsys' = fsys
                  ELSE /\ Finish2(r, log[r], pid, Null, rmThrows)
                       /\ UNCHANGED moduleName

\* Lines 334-371: the init transaction has resolved or thrown.
P2_InitReturns(r) ==
  /\ postDef = 2
  /\ pc[r] = "init"
  /\ UNCHANGED <<config, body, keypair, modules, packageId, moduleName, wsPath,
                 publishTxn, now>>
  /\ \E reply \in InitReplies(r), rmThrows \in BOOLEAN :
       LET oid == IF reply.threw THEN Null ELSE CreatedIdOf(reply)
       IN
       /\ initResult' = [initResult EXCEPT ![r] = reply]
       /\ objectId' = [objectId EXCEPT ![r] = oid]
       /\ Finish2(r, log[r], packageId[r], oid, rmThrows)

\* ======================== the first definition of POST (lines 32-172) =====

\* effects.created of a publish reply: the ids of the objects it created
EffectsCreated(reply) ==
  LET made == SelectSeq(reply.changes, LAMBDA c : c.type # "mutated")
  IN [i \in 1..Len(made) |-> made[i].id]

\* created?.[i - 1]?.reference?.objectId, lines 108-109
CreatedAt(reply, i) ==
  IF reply.reported /\ i <= Len(EffectsCreated(reply)) THEN EffectsCreated(reply)[i] ELSE None

\* Line 103: the publish is taken to have failed
PublishFailed1(reply) == ~reply.reported \/ reply.status # "success"

\* Date.now() gives the time, which never runs backwards.
DateNow == now..MaxClock

\* The 200 response of lines 133-144
Result1(r) ==
  [NoResponse EXCEPT !.status = 200,
                     !.packageId = packageId[r],
                     !.objectId = objectId[r],
                     !.privateKeyHex = ToHex(keypair[r]),
                     !.address = ToSuiAddress(keypair[r])]

\* Lines 76-88: the source text is written to /tmp/counter_<Date.now()>.move and
\* the publish submitted; writeFileSync throwing reaches the outer catch.
WriteAndPublish1(r, lg, t, writeThrows) ==
  /\ now' = t
  /\ wsPath' = [wsPath EXCEPT ![r] = ScratchFile(t)]
  /\ moduleName' = [moduleName EXCEPT ![r] = "counter_" \o ToString(t)]
  /\ IF writeThrows
     THEN /\ Return(r, ErrorResponse("ENOSPC: write"))
          /\ log' = [log EXCEPT ![r] = lg]
          /\ fsys' = fsys
     ELSE /\ fsys' = WriteFileSync(fsys, ScratchFile(t), body[r].moveCode)
          /\ log' = [log EXCEPT ![r] = Append(Append(lg, "write"), "publish")]
          /\ Await(r, "publish")

\* Lines 34-58 (and 76-88 when no funding is awaited): request.json() has
\* resolved or thrown; validation, key pair, and the faucet request when a
\* master mnemonic is set.
P1_Validate(r) ==
  /\ postDef = 1
  /\ pc[r] = "json"
  /\ UNCHANGED <<config, body, modules, packageId, objectId, publishTxn, initResult>>
  /\ IF body[r].json # "object"
     THEN /\ Return(r, ErrorResponse("Unexpected token"))
          /\ UNCHANGED <<keypair, moduleName, wsPath, log, fsys, now>>
     ELSE IF IsMissing(body[r].moveCode)
     THEN /\ Return(r, RequiredResponse)
          /\ UNCHANGED <<keypair, moduleName, wsPath, log, fsys, now>>
     ELSE /\ keypair' = [keypair EXCEPT ![r] = Generate(r)]
          /\ IF mnemonic = "valid words"
             THEN /\ log' = [log EXCEPT ![r] = <<"keygen", "faucet">>]
                  /\ Await(r, "faucet")
                  /\ UNCHANGED <<moduleName, wsPath, fsys, now>>
             ELSE \* no mnemonic, or deriveKeypairFromMnemonic throws and is caught
                  \E t \in DateNow, writeThrows \in BOOLEAN :
                    WriteAndPublish1(r, <<"keygen">>, t, writeThrows)

\* Lines 58-74: requestSuiFromFaucet has resolved or thrown.
P1_FaucetReturns(r) ==
  /\ postDef = 1
  /\ pc[r] = "faucet"
  /\ UNCHANGED <<config, body, keypair, modules, packageId, objectId, publishTxn,
                 initResult>>
  /\ \E threw \in BOOLEAN, t \in DateNow, writeThrows \in BOOLEAN :
       IF threw
       THEN WriteAndPublish1(r, Append(log[r], "faucet threw"), t, writeThrows)
       ELSE /\ log' = [log EXCEPT ![r] = Append(@, "transfer")]
            /\ Await(r, "transfer")
            /\ UNCHANGED <<moduleName, wsPath, fsys, now>>

\* The transfer from the master wallet has resolved or thrown: lines 65-74 of
\* the first definition, where a failure is caught, and lines 285-292 of the
\* second, where it is thrown inside the catch of the faucet request and so
\* reaches the catch of the inner try.
TransferReturns(r) ==
  /\ pc[r] = "transfer"
  /\ UNCHANGED <<config, body, keypair, modules, packageId, objectId, publishTxn,
                 initResult>>
  /\ \E threw \in BOOLEAN, t \in DateNow, writeThrows \in BOOLEAN, rmThrows \in BOOLEAN :
       LET lg == IF threw THEN Append(log[r], "transfer threw") ELSE log[r]
       IN
       IF postDef = 1
       THEN WriteAndPublish1(r, lg, t, writeThrows)
       ELSE IF threw
       THEN /\ Catch2(r, fsys, lg, "Transaction rejected", rmThrows)
            /\ UNCHANGED <<moduleName, wsPath, now>>
       ELSE /\ log' = [log EXCEPT ![r] = Append(@, "delay")]
            /\ Await(r, "delay")
            /\ UNCHANGED <<moduleName, wsPath, fsys, now>>

\* Lines 85-99: signer.publish has resolved or thrown.
P1_PublishReturns(r) ==
  /\ postDef = 1
  /\ pc[r] = "publish"
  /\ UNCHANGED <<config, body, keypair, modules, packageId, objectId, moduleName, wsPath,
                 initResult, log, fsys, now>>
  /\ \E threw \in BOOLEAN :
       IF threw
       THEN /\ Return(r, ErrorResponse("Transaction rejected"))
            /\ publishTxn' = [publishTxn EXCEPT ![r] = Throws]
       ELSE /\ Await(r, "wait")
            /\ publishTxn' = publishTxn

\* Lines 93-127: waitForTransactionBlock has resolved or thrown.
P1_WaitReturns(r) ==
  /\ postDef = 1
  /\ pc[r] = "wait"
  /\ UNCHANGED <<config, body, keypair, modules, moduleName, wsPath, initResult, fsys, now>>
  /\ \E reply \in PublishReplies(r) :
       LET pid == CreatedAt(reply, 1)
           oid == CreatedAt(reply, 2)
       IN
       /\ publishTxn' = [publishTxn EXCEPT ![r] = reply]
       /\ IF reply.threw
          THEN /\ Return(r, ErrorResponse("Transaction not found"))
               /\ UNCHANGED <<packageId, objectId, log>>
          ELSE IF PublishFailed1(reply)
          THEN /\ Return(r, ErrorResponse("Publish transaction failed"))
               /\ UNCHANGED <<packageId, objectId, log>>
          ELSE IF ~Truthy(pid) \/ ~Truthy(oid)
          THEN /\ Return(r, ErrorResponse(
                      "Failed to extract package ID or object ID from publish result"))
               /\ UNCHANGED <<packageId, objectId, log>>
          ELSE /\ packageId' = [packageId EXCEPT ![r] = pid]
               /\ objectId' = [objectId EXCEPT ![r] = oid]
               /\ log' = [log EXCEPT ![r] = Append(@, "init")]
               /\ Await(r, "init")

\* Lines 125-144: the init call has resolved or thrown; either way the result
\* is returned.
P1_InitReturns(r) ==
  /\ postDef = 1
  /\ pc[r] = "init"
  /\ UNCHANGED <<config, body, keypair, modules, packageId, objectId, moduleName, wsPath,
                 publishTxn, log, fsys, now>>
  /\ \E reply \in InitReplies(r) :
       /\ initResult' = [initResult EXCEPT ![r] = reply]
       /\ Return(r, Result1(r))

\* ---------------------------------------------------------- specification
Next ==
  \E r \in Reqs :
    \/ Receive(r)
    \/ P1_Validate(r)
    \/ P1_FaucetReturns(r)
    \/ TransferReturns(r)
    \/ P1_PublishReturns(r)
    \/ P1_WaitReturns(r)
    \/ P1_InitReturns(r)
    \/ P2_Validate(r)
    \/ P2_FaucetReturns(r)
    \/ P2_DelayElapsed(r)
    \/ P2_PublishReturns(r)
    \/ P2_InitReturns(r)

Spec == Init /\ [][Next]_vars

\* ================================================================= claims

Has(lg, e) == \E i \in 1..Len(lg) : lg[i] = e

Returned(r) == pc[r] = "done"

\* The step in which the handler of request r returns its response
Returns(r) == pc[r] # "done" /\ pc'[r] = "done"

\* ----------------------------------------------------------------------- C1
\* C1: whenever a handler that got past input validation returns, with 200 or
\* with 500, the workspace path of the request does not exist.  It is stated
\* for the returns before which no removal threw, so that it cannot fail for
\* want of a working file system.
C1_WorkspaceGoneAtReturn ==
  [][\A r \in Reqs :
       (Returns(r) /\ wsPath'[r] # None /\ ~Has(log'[r], "rm threw")) =>
         wsPath'[r] \notin DOMAIN fsys']_vars

\* ----------------------------------------------------------------------- C2
MoveCodeMissing(r) == body[r].json = "object" /\ body[r].moveCode \in {Absent, ""}

\* C2: a request whose moveCode is absent or empty performs no external
\* operation at all (no directory, no file, no compiler, no faucet, no
\* transaction) and is answered 400.
C2_MissingMoveCode ==
  \A r \in Reqs :
    (pc[r] # "idle" /\ MoveCodeMissing(r)) =>
      /\ log[r] = <<>>
      /\ wsPath[r] = None
      /\ Returned(r) => resp[r] = RequiredResponse

C2_Witness ==
  \E r \in Reqs : Returned(r) /\ body[r].json = "object" /\ body[r].moveCode = ""
                  /\ resp[r].status = 400

\* ----------------------------------------------------------------------- C3
BuildFailed(r) == Has(log[r], "build failed")

PublishReportedFailure(r) == ~publishTxn[r].threw /\ publishTxn[r].status = "failure"

\* C4: when the publish transaction's reported execution status is failure,
\* the handler has returned a 500 response and no init transaction was
\* submitted for the request.
C4_PublishFailureIsFatal ==
  \A r \in Reqs :
    PublishReportedFailure(r) =>
      /\ Returned(r)
      /\ resp[r].status = 500 /\ resp[r].error # None /\ resp[r].packageId = None
      /\ ~Has(log[r], "init")
      /\ initResult[r] = NoReply

C4_Witness ==
  \E r \in Reqs : postDef = 2 /\ PublishReportedFailure(r) /\ resp[r].status = 500

\* ----------------------------------------------------------------------- C5
PublishedOk(r) == packageId[r] # None

NoObjectFromInit(r) ==
  \/ ~Has(log[r], "init")
  \/ initResult[r].threw
  \/ initResult[r].status # "success"
  \/ FindChange(initResult[r], "created") = None

\* C5: after a successful publish, if no init call is made, or it fails, or
\* it creates no object, the response is a 200 whose objectId is null.
C5_InitFailureGivesNull ==
  \A r \in Reqs :
    (Returned(r) /\ PublishedOk(r) /\ NoObjectFromInit(r)) =>
      resp[r].status = 200 /\ resp[r].objectId = Null

\* ----------------------------------------------------------------------- C6
FundingFailed(r) == Has(log[r], "faucet threw") \/ Has(log[r], "transfer threw")

\* C6: after a failure of the faucet request or of the transfer the handler
\* goes on and submits the publish transaction; the only error response it
\* can give before that is for the scratch file of the first definition
\* failing to be written, never for the funding failure.
C6_FundingFailureNotFatal ==
  \A r \in Reqs :
    FundingFailed(r) =>
      \/ Has(log[r], "publish")
      \/ postDef = 1 /\ Returned(r) /\ resp[r] = ErrorResponse("ENOSPC: write")

C6_Witness ==
  \E r \in Reqs : postDef = 2 /\ Has(log[r], "faucet threw") /\ Returned(r)
                  /\ resp[r].status = 200

\* ----------------------------------------------------------------------- C7
\* C7: any two requests answered 200 were given different addresses and
\* different private keys.
C7_FreshIdentities ==
  \A r1, r2 \in Reqs :
    (r1 # r2 /\ resp[r1].status = 200 /\ resp[r2].status = 200) =>
      /\ resp[r1].address # resp[r2].address
      /\ resp[r1].privateKeyHex # resp[r2].privateKeyHex

\* ----------------------------------------------------------------------- C8
InProgress(r) == pc[r] \notin {"idle", "json", "done"}

\* C8: two requests in progress at the same time never have the same
\* workspace path (stated for the second definition, whose workspace the
\* claim is about).
C8_DistinctWorkspaces ==
  \A r1, r2 \in Reqs :
    (postDef = 2 /\ r1 # r2 /\ InProgress(r1) /\ InProgress(r2)
       /\ wsPath[r1] # None /\ wsPath[r2] # None) => wsPath[r1] # wsPath[r2]

\* ----------------------------------------------------------------------- C9
ChangeIds(reply) == {reply.changes[i].id : i \in 1..Len(reply.changes)}

\* C9: a 200 response carries a non-empty packageId, an objectId (a string
\* or null), privateKeyHex and address, and its packageId is an id reported
\* by the reply to the request's publish transaction.
C9_SuccessCarriesPackageId ==
  \A r \in Reqs :
    resp[r].status = 200 =>
      /\ Truthy(resp[r].packageId)
      /\ resp[r].objectId # None
      /\ Truthy(resp[r].privateKeyHex)
      /\ Truthy(resp[r].address)
      /\ ~publishTxn[r].threw /\ publishTxn[r].status = "success"
      /\ resp[r].packageId \in ChangeIds(publishTxn[r])

C9_Witness ==
  \E r \in Reqs : postDef = 2 /\ resp[r].status = 200 /\ resp[r].objectId = Null
                  /\ resp[r].packageId = ObjectIdOf(r, "p", 1)

\* ---------------------------------------------------------------------- C10
FatalError(r) ==
  \/ Has(log[r], "build failed")
  \/ Has(log[r], "parse failed")
  \/ publishTxn[r].threw
  \/ publishTxn[r].status = "failure"
  \/ publishTxn[r] # NoReply /\ postDef = 2 /\ PackageIdOf(publishTxn[r]) = None

\* C10: a request that met a fatal pipeline error (the build failed, its
\* output had no module list, the publish failed or reported no package id)
\* is answered 500, and every 500 response has the fields error and details
\* and none of the fields of a result.
C10_FatalErrorShape ==
  \A r \in Reqs :
    /\ (Returned(r) /\ FatalError(r)) => resp[r].status = 500
    /\ resp[r].status = 500 =>
         /\ resp[r].error # None /\ resp[r].details # None
         /\ resp[r].packageId = None /\ resp[r].privateKeyHex = None
         /\ resp[r].objectId = None /\ resp[r].address = None

C10_Witness ==
  \E r \in Reqs : Has(log[r], "parse failed") /\ resp[r].status = 500
                  /\ resp[r].details = "Failed to extract compiled modules from build output"

\* ---------------------------------------------------------------------- C11
\* The error the pipeline of the second definition met, read off what the
\* request did: None when it met none.
PipelineError2(r) ==
  IF Has(log[r], "build failed") THEN "Command failed: sui move build"
  ELSE IF Has(log[r], "parse failed")
    THEN "Failed to extract compiled modules from build output"
  ELSE IF ~Has(log[r], "build") THEN "ENOSPC: write"
  ELSE IF ~Has(log[r], "keygen") THEN "Invalid mnemonic"
  ELSE IF publishTxn[r].threw THEN "Transaction rejected"
  ELSE IF ~Truthy(PackageIdOf(publishTxn[r]))
    THEN "Failed to extract package ID from transaction"
  ELSE None

CleanupFailed(r) == postDef = 2 /\ Returned(r) /\ Has(log[r], "rm threw")

\* C11: when the removal of tempDir throws, the caller never sees it: a
\* request whose pipeline met no error is still answered 200 with its package
\* id, and one whose pipeline met an error is answered 500 with that error
\* as details.
C11_CleanupFailureHidden ==
  \A r \in Reqs :
    CleanupFailed(r) =>
      IF PipelineError2(r) = None
      THEN resp[r].status = 200 /\ resp[r].packageId = PackageIdOf(publishTxn[r])
           /\ resp[r].error = None /\ resp[r].details = None
      ELSE resp[r] = ErrorResponse(PipelineError2(r))

C11_Witness ==
  \E r1, r2 \in Reqs :
    /\ CleanupFailed(r1) /\ resp[r1].status = 200
    /\ CleanupFailed(r2) /\ resp[r2].status = 500 /\ publishTxn[r2].threw

\* ---------------------------------------------------------------------- C12
\* The fields of the body of a response: those JSON.stringify writes out.
FieldsOf(response) == {f \in DOMAIN response \ {"status"} : response[f] # None}

FundingSucceeded(r) == Has(log[r], "faucet") /\ ~FundingFailed(r)

\* C12: a 200 response has a field fundingSucceeded, which is true exactly
\* when a funding step was performed for the address and did not fail.
C12_FundingFlag ==
  \A r \in Reqs :
    resp[r].status = 200 =>
      /\ "fundingSucceeded" \in FieldsOf(resp[r])
      /\ resp[r]["fundingSucceeded"] = (IF FundingSucceeded(r) THEN "true" ELSE "false")

\* ---------------------------------------------------------------------- C13
\* C13: with MASTER_WALLET_MNEMONIC not set, no request asks the faucet for
\* coins and none submits a transfer.
C13_NoSecretNoFunding ==
  \A r \in Reqs :
    ~Truthy(mnemonic) => ~Has(log[r], "faucet") /\ ~Has(log[r], "transfer")

\* ---------------------------------------------------------------------- C14
\* C14: two requests answered 200 were given different package ids, whether
\* or not they deployed the same source text.
C14_DistinctPackageIds ==
  \A r1, r2 \in Reqs :
    (r1 # r2 /\ resp[r1].status = 200 /\ resp[r2].status = 200) =>
      resp[r1].packageId # resp[r2].packageId

C14_Witness ==
  \E r1, r2 \in Reqs :
    /\ r1 # r2 /\ postDef = 2
    /\ resp[r1].status = 200 /\ resp[r2].status = 200
    /\ body[r1].moveCode = body[r2].moveCode
    /\ Truthy(resp[r1].packageId) /\ Truthy(resp[r2].packageId)

\* ---------------------------------------------------------------------- C15
\* C15: with MASTER_WALLET_MNEMONIC set to a mnemonic that gives a key pair, a
\* request that has got as far as
\* submitting its publish transaction has before that asked the faucet for
\* coins and submitted a transfer from the master wallet, the transfer
\* whether or not the faucet request failed.
C15_FaucetThenTransfer ==
  \A r \in Reqs :
    (mnemonic = "valid words" /\ Has(log[r], "publish")) =>
      Has(log[r], "faucet") /\ Has(log[r], "transfer")

\* ---------------------------------------------------------------------- C16
\* The number of changes of a reply that designate a package
PublishedCount(reply) ==
  Cardinality({i \in 1..Len(reply.changes) : reply.changes[i].type = "published"})

\* C16: a request whose publish reply does not report exactly one package
\* is answered 500 and submits no init transaction.
C16_ExactlyOnePackage ==
  \A r \in Reqs :
    (publishTxn[r] # NoReply /\ ~publishTxn[r].threw
       /\ PublishedCount(publishTxn[r]) # 1) =>
      /\ Returned(r) /\ resp[r].status = 500
      /\ ~Has(log[r], "init")

\* ---------------------------------------------------------------------- C17
\* C17: no publish transaction is submitted with an empty list of modules
\* (stated for the second definition, which is the one that builds).
C17_NoEmptyPublish ==
  \A r \in Reqs :
    (postDef = 2 /\ Has(log[r], "publish")) => modules[r] # <<>>

\* ---------------------------------------------------------------------- C18
\* The first object a transaction created, whether or not the reply to it
\* reports the changes: None when it created none.
FirstCreated(reply) ==
  LET hits == {i \in 1..Len(reply.changes) : reply.changes[i].type = "created"}
  IN IF hits = {} THEN None
     ELSE reply.changes[CHOOSE i \in hits : \A j \in hits : i <= j].id

InitSucceeded(r) ==
  Has(log[r], "init") /\ ~initResult[r].threw /\ initResult[r].status = "success"

\* C18: in a 200 response of the second definition, objectId is the id of
\* the first object the init transaction created when that transaction
\* executed with success and created one, and null when the init
\* transaction did not execute with success.
C18_ObjectIdFromInit ==
  \A r \in Reqs :
    (postDef = 2 /\ resp[r].status = 200 /\ Has(log[r], "init")) =>
      /\ (InitSucceeded(r) /\ FirstCreated(initResult[r]) # None) =>
           resp[r].objectId = FirstCreated(initResult[r])
      /\ ~InitSucceeded(r) => resp[r].objectId = Null

\* ---------------------------------------------------------------------- C19
\* The request awaits the faucet, the delay, a transfer, or the reply to its
\* publish or init transaction.
AfterBuild(r) == pc[r] \in {"faucet", "delay", "transfer", "publish", "init"}

\* C19: while a request of the second definition awaits a funding request or
\* the reply to its publish or init transaction, its workspace directory
\* does not exist.
C19_WorkspaceGoneAfterBuild ==
  \A r \in Reqs :
    (postDef = 2 /\ AfterBuild(r)) => wsPath[r] \notin DOMAIN fsys

\* ---------------------------------------------------------------------- C20
\* e1 is in lg whenever e2 is, and before it
Before(lg, e1, e2) ==
  \A j \in 1..Len(lg) : lg[j] = e2 => \E i \in 1..(j - 1) : lg[i] = e1

\* No e2 of lg comes before an e1
NotAfter(lg, e1, e2) ==
  \A i, j \in 1..Len(lg) : (lg[i] = e1 /\ lg[j] = e2) => i < j

BuildSucceeded(r) ==
  Has(log[r], "build") /\ ~Has(log[r], "build failed") /\ ~Has(log[r], "parse failed")

\* The funding request of r, if it made one, has come to its end.
FundingOver(r) ==
  Has(log[r], "faucet") => (Has(log[r], "delay") \/ Has(log[r], "faucet threw"))

\* What the claim and its amendment share: build, funding, publish and init
\* in this order, each over before the next begins.
StepsInOrder(r) ==
  /\ Before(log[r], "mkdir", "build")
  /\ Before(log[r], "build", "faucet")
  /\ Before(log[r], "build", "publish")
  /\ Before(log[r], "faucet", "delay") /\ Before(log[r], "faucet", "faucet threw")
  /\ Has(log[r], "publish") =>
       /\ BuildSucceeded(r) /\ FundingOver(r)
       /\ NotAfter(log[r], "faucet", "publish")
       /\ NotAfter(log[r], "delay", "publish")
       /\ NotAfter(log[r], "faucet threw", "publish")
  /\ Before(log[r], "publish", "init")
  /\ Has(log[r], "init") =>
       /\ ~publishTxn[r].threw /\ Truthy(PackageIdOf(publishTxn[r]))
       /\ packageId[r] = PackageIdOf(publishTxn[r])
  /\ resp[r].status = 200 =>
       /\ Has(log[r], "publish")
       /\ Has(log[r], "init") => initResult[r] # NoReply

C21_DelayAfterEveryFaucet ==
  \A r \in Reqs :
    (postDef = 2 /\ Has(log[r], "faucet") /\ Has(log[r], "publish")) =>
      /\ Has(log[r], "delay")
      /\ NotAfter(log[r], "faucet", "delay") /\ NotAfter(log[r], "delay", "publish")

\* C21 as amended: a request of the second definition whose faucet request
\* resolved waited the delay between it and the submission of the publish
\* transaction; one whose faucet request threw submitted the publish
\* transaction without waiting.
C21_DelayAfterResolvedFaucet ==
  \A r \in Reqs :
    (postDef = 2 /\ Has(log[r], "faucet") /\ Has(log[r], "publish")) =>
      IF Has(log[r], "faucet threw")
      THEN ~Has(log[r], "delay")
      ELSE /\ Has(log[r], "delay")
           /\ NotAfter(log[r], "faucet", "delay") /\ NotAfter(log[r], "delay", "publish")

C21_Witness ==
  \E r1, r2 \in Reqs :
    /\ postDef = 2
    /\ Has(log[r1], "delay") /\ Has(log[r1], "publish")
    /\ Has(log[r2], "faucet threw") /\ Has(log[r2], "publish")

\* ---------------------------------------------------------------------- C22
\* Request r has submitted a transaction signed by the master key pair and
\* awaits the reply.
MasterTxInFlight(r) ==
  \/ pc[r] = "transfer"
  \/ pc[r] \in {"publish", "wait", "init"} /\ keypair[r] = MasterKey

\* C22: no two requests await, at the same time, the reply to a transaction
\* signed by the master key pair.
C22_NoMasterRace ==
  \A r1, r2 \in Reqs :
    r1 # r2 => ~(MasterTxInFlight(r1) /\ MasterTxInFlight(r2))

\* ---------------------------------------------------------------------- C24
\* C24: the private key and the address of a 200 response are never those
\* of the key pair derived from MASTER_WALLET_MNEMONIC; they are those of the
\* key pair generated for the request.
C24_MasterKeyNotReturned ==
  \A r \in Reqs :
    resp[r].status = 200 =>
      /\ resp[r].privateKeyHex = ToHex(Generate(r))
      /\ resp[r].address = ToSuiAddress(Generate(r))
      /\ resp[r].privateKeyHex # ToHex(MasterKey)
      /\ resp[r].address # ToSuiAddress(MasterKey)

C26_InitTarget ==
  \A r \in Reqs :
    (postDef = 2 /\ body[r].json = "object") =>
      /\ body[r].moveCode = SrcNoDecl =>
           /\ ~Has(log[r], "init") /\ pc[r] # "init" /\ initResult[r] = NoReply
           /\ moduleName[r] = None
           /\ Truthy(packageId[r]) =>
                /\ Returned(r) /\ resp[r].status = 200
                /\ resp[r].objectId = Null /\ resp[r].packageId = packageId[r]
      /\ (body[r].moveCode = SrcQualified /\ Has(log[r], "init")) =>
           /\ moduleName[r] = "contract"
           /\ packageId[r] = PackageIdOf(publishTxn[r]) /\ Truthy(packageId[r])

C26_Witness ==
  \E r1, r2 \in Reqs :
    /\ postDef = 2
    /\ body[r1].moveCode = SrcNoDecl /\ resp[r1].status = 200 /\ resp[r1].objectId = Null
    /\ body[r2].moveCode = SrcQualified /\ pc[r2] = "init" /\ moduleName[r2] = "contract"

\* ---------------------------------------------------------------------- C23
\* A step of the handler serving request r: the call it awaits resolves or
\* throws and the handler runs on.
HandlerStep(r) ==
  \/ P1_Validate(r) \/ P1_FaucetReturns(r) \/ TransferReturns(r)
  \/ P1_PublishReturns(r) \/ P1_WaitReturns(r) \/ P1_InitReturns(r)
  \/ P2_Validate(r) \/ P2_FaucetReturns(r) \/ P2_DelayElapsed(r)
  \/ P2_PublishReturns(r) \/ P2_InitReturns(r)

LiveReqs == 1..NumLiveReqs

LiveNext == \E r \in LiveReqs : Receive(r) \/ HandlerStep(r)

\* The handlers of LiveReqs, where every call a handler awaits returns or
\* throws in the end.
LiveSpec == Init /\ [][LiveNext]_vars /\ \A r \in LiveReqs : WF_vars(HandlerStep(r))

\* The places a handler can be at; an exception leaving the handler would
\* put it at none of them.
PcValues ==
  {"idle", "json", "faucet", "delay", "transfer", "publish", "wait", "init", "done"}

\* C23: every handler invoked returns in the end; it is at a place of the
\* handler until then, returns a response with status 200, 400 or 500, and
\* its response, once given, does not change.
C23_AlwaysReturns ==
  /\ \A r \in Reqs : (pc[r] = "json") ~> Returned(r)
  /\ [](\A r \in Reqs : /\ pc[r] \in PcValues
                        /\ Returned(r) <=> resp[r].status \in {200, 400, 500}
                        /\ ~Returned(r) => resp[r] = NoResponse)
  /\ [][\A r \in Reqs : Returned(r) => (Returned(r)' /\ resp'[r] = resp[r])]_vars

C23_Witness ==
  \E r \in Reqs : Returned(r) /\ body[r].json = "invalid" /\ resp[r].status = 500

\* ================ WebContainerPreview (WebContainerPreview.tsx, 129-277) ===

handler == <<config, pc, body, locals, log, resp, fsys, now>>

\* A state setter called with `new`: React drops the update of a component
\* that is no longer mounted.
SetState(cur, new) == IF compMounted THEN new ELSE cur

\* The address the dev server of container c listens at
Url(c) == "url" \o ToString(c)

\* Lines 262-276, the cleanup of run e: the flag is lowered, the processes
\* the run has set by now are killed, and the container its closure sees in
\* the webContainer state, if any, is torn down.
CleanupEffect(e) ==
  /\ mounted' = [mounted EXCEPT ![e] = FALSE]
  /\ procs' = [procs EXCEPT ![e] = {}]
  /\ running' = running \ {captured[e]}

\* Lines 252-256, the catch of setupWebContainer
SetupFails(e) ==
  /\ stage' = [stage EXCEPT ![e] = "failed"]
  /\ previewError' = SetState(previewError, "Failed to start preview")
  /\ isLoading' = SetState(isLoading, FALSE)

\* The component mounts.  The terminal effect (144-167) sets the terminal
\* state, which the lifecycle effect of this first render does not see yet:
\* its setupWebContainer returns at line 176.
Mount ==
  /\ ~compMounted /\ effect = 0
  /\ compMounted' = TRUE
  /\ terminal' = TRUE
  /\ effect' = 1
  /\ mounted' = [mounted EXCEPT ![1] = TRUE]
  /\ captured' = [captured EXCEPT ![1] = wcState]
  /\ stage' = [stage EXCEPT ![1] = "returned"]
  /\ UNCHANGED <<handler, page, wcState, isLoading, previewError, iframeSrc, procs, running>>

\* A dependency of line 277 changed (the terminal was set, or a prop
\* changed): the cleanup of the latest run, then a new run of the effect,
\* lines 170-196, up to the await of WebContainer.boot().
Rerun ==
  /\ compMounted /\ effect \in 1..(MaxEffects - 1)
  /\ LET e == effect + 1
     IN /\ effect' = e
        /\ mounted' = [mounted EXCEPT ![effect] = FALSE, ![e] = TRUE]
        /\ procs' = [procs EXCEPT ![effect] = {}]
        /\ running' = running \ {captured[effect]}
        /\ captured' = [captured EXCEPT ![e] = wcState]
        /\ stage' = [stage EXCEPT ![e] = "boot"]
        /\ isLoading' = TRUE
        /\ previewError' = Null
  /\ UNCHANGED <<handler, page, compMounted, terminal, wcState, iframeSrc>>

\* The component unmounts: the cleanup of the latest run.
Unmount ==
  /\ compMounted /\ effect >= 1
  /\ compMounted' = FALSE
  /\ CleanupEffect(effect)
  /\ UNCHANGED <<handler, page, terminal, wcState, isLoading, previewError, iframeSrc,
                 effect, captured, stage>>

\* Lines 196-202: WebContainer.boot() has resolved or thrown.  The container
\* booted by run e is container e.
BootReturns(e) ==
  /\ stage[e] = "boot"
  /\ UNCHANGED <<handler, page, compMounted, terminal, iframeSrc, effect, mounted,
                 captured, procs>>
  /\ \E threw \in BOOLEAN :
       IF threw
       THEN SetupFails(e) /\ UNCHANGED <<wcState, running>>
       ELSE IF ~mounted[e]
       THEN \* lines 197-200: torn down at once
            /\ stage' = [stage EXCEPT ![e] = "returned"]
            /\ UNCHANGED <<wcState, running, isLoading, previewError>>
       ELSE /\ running' = running \cup {e}
            /\ wcState' = SetState(wcState, e)
            /\ stage' = [stage EXCEPT ![e] = "write"]
            /\ UNCHANGED <<isLoading, previewError>>

\* An await of lines 205-231 other than the exit of npm install has resolved
\* or thrown: the files are written (205-211), npm install is spawned (215),
\* npm run dev is spawned and the listener registered (231-250).
SetupStep(e) ==
  /\ stage[e] \in {"write", "spawnInstall", "spawnDev"}
  /\ UNCHANGED <<handler, page, compMounted, terminal, wcState, iframeSrc, effect, mounted,
                 captured, running>>
  /\ \E threw \in BOOLEAN :
       IF threw
       THEN SetupFails(e) /\ UNCHANGED procs
       ELSE /\ stage' = [stage EXCEPT ![e] =
                           CASE stage[e] = "write" -> "spawnInstall"
                             [] stage[e] = "spawnInstall" -> "install"
                             [] OTHER -> "listening"]
            /\ procs' = [procs EXCEPT ![e] =
                           CASE stage[e] = "write" -> @
                             [] stage[e] = "spawnInstall" -> @ \cup {"install"}
                             [] OTHER -> @ \cup {"dev"}]
            /\ UNCHANGED <<isLoading, previewError>>

\* Lines 224-227: npm install has exited.
InstallExits(e) ==
  /\ stage[e] = "install"
  /\ UNCHANGED <<handler, page, compMounted, terminal, wcState, iframeSrc, effect, mounted,
                 captured, procs, running>>
  /\ \E code \in {0, 1} :
       IF code # 0
       THEN SetupFails(e)
       ELSE /\ stage' = [stage EXCEPT ![e] = "spawnDev"]
            /\ UNCHANGED <<isLoading, previewError>>

\* Lines 243-250: container e, which is running, reports its server ready.
ServerReady(e) ==
  /\ stage[e] = "listening" /\ e \in running
  /\ stage' = [stage EXCEPT ![e] = "ready"]
  /\ IF mounted[e] /\ compMounted
     THEN iframeSrc' = Url(e) /\ isLoading' = FALSE
     ELSE UNCHANGED <<iframeSrc, isLoading>>
  /\ UNCHANGED <<handler, page, compMounted, terminal, wcState, previewError, effect,
                 mounted, captured, procs, running>>

PreviewNext ==
  \/ Mount
  \/ Rerun
  \/ Unmount
  \/ \E e \in Effects : BootReturns(e) \/ SetupStep(e) \/ InstallExits(e) \/ ServerReady(e)

\* The preview alone, beside a route that serves no request.
PreviewSpec == Init /\ [][PreviewNext]_vars

\* ---------------------------------------------------------------------- C27
\* The cleanup of run e of the effect has finished.
CleanedUp(e) == e <= effect /\ ~mounted[e]

\* C27: once the cleanup of a run of the effect has finished and its boot has
\* returned, the container that run booted is not running.
C27_NoContainerLeft ==
  \A e \in Effects : (CleanedUp(e) /\ stage[e] # "boot") => e \notin running

\* ============================== the Home page (src/unnamed/part_002) ======

\* A property read off the parsed body of a response: undefined when the body
\* has no such property.
Get(response, f) ==
  IF f \in DOMAIN response THEN response[f] ELSE None

\* Lines 45-72, handleGenerate: the page gets a source text, or none.
GenerateReturns ==
  /\ \E code \in MoveCodes : page' = [page EXCEPT !.moveCode = code]
  /\ UNCHANGED <<handler, preview>>

\* Lines 77-91, handleDeploy up to the await of fetch: the page posts its
\* source text and the route starts serving request r.  The button is there
\* while nothing is deployed (line 205) and is disabled while deploying
\* (line 209).
HandleDeploy(r) ==
  /\ Truthy(page.moveCode)
  /\ ~Truthy(page.deployment.packageId)
  /\ ~page.isDeploying
  /\ r <= MaxDeploys
  /\ pc[r] = "idle" /\ \A q \in 1..(r - 1) : pc[q] # "idle"
  /\ page' = [page EXCEPT !.isDeploying = TRUE, !.awaiting = r]
  /\ body' = [body EXCEPT ![r] = [json |-> "object", moveCode |-> page.moveCode]]
  /\ pc' = [pc EXCEPT ![r] = "json"]
  /\ UNCHANGED <<config, locals, log, resp, fsys, now, preview>>

\* Lines 93-105: the handler has returned, and the fetch has thrown (the
\* response was lost on the way) or has resolved with the response.
DeployResponds(r) ==
  /\ page.awaiting = r
  /\ Returned(r)
  /\ UNCHANGED <<handler, preview>>
  /\ \E threw \in BOOLEAN :
       IF threw \/ resp[r].status # 200
       THEN \* catch of line 100, finally of line 103
            page' = [page EXCEPT !.isDeploying = FALSE, !.awaiting = 0, !.last = r]
       ELSE /\ page' = [page EXCEPT
                 !.deployment = [packageId |-> Get(resp[r], "packageId"),
                                 objectId |-> Get(resp[r], "objectId"),
                                 burnerPrivateKey |-> Get(resp[r], "burnerPrivateKey")],
                 !.isDeploying = FALSE, !.awaiting = 0, !.last = r]

PageNext ==
  \/ GenerateReturns
  \/ \E r \in Reqs : HandleDeploy(r) \/ HandlerStep(r) \/ DeployResponds(r)

\* The page and the route it posts to
PageSpec == Init /\ [][PageNext]_vars

\* Line 276 of the page: the privateKey prop of WebContainerPreview
PrivateKeyProp == page.deployment.burnerPrivateKey

\* Line 186 of the preview: what replace() puts in the place of
\* {{BURNER_PRIVATE_KEY_HEX}}; an undefined replacement is written "undefined".
Substituted(key) == IF key = None THEN "undefined" ELSE key

\* ---------------------------------------------------------------------- C28
\* The page holds the deployment it was given in the 200 response to r.
Deployed(r) ==
  /\ page.last = r /\ page.awaiting = 0
  /\ resp[r].status = 200 /\ page.deployment.packageId = resp[r].packageId

\* C28: once the page holds a deployment, the private key it passes to the
\* preview, and the text the preview puts in the place of the placeholder,
\* are the privateKeyHex of the 200 response.
C28_PrivateKeyReachesPreview ==
  \A r \in Reqs :
    Deployed(r) =>
      /\ PrivateKeyProp = resp[r].privateKeyHex
      /\ Substituted(PrivateKeyProp) = resp[r].privateKeyHex

====
